---- MODULE Spec2Model ----
(***************************************************************************)
(* A model of three programs of the Noema repository:                        *)
(*                                                                         *)
(*   scripts/check-notebook-code.py        the static undefined-symbol     *)
(*                                         checker (SpecChecker)           *)
(*   scripts/check-notebook-isolated-run.py the isolated-run verifier       *)
(*                                         (SpecIsolated)                  *)
(*   infra/lambda/python-runner/handler.py the sandboxed runner with       *)
(*                                         auto-install (SpecRunnerSeq,    *)
(*                                         SpecRunner, SpecRunnerFair;     *)
(*                                         SpecCoerce for _coerce_modules) *)
(*                                                                         *)
(* Syntax trees are records with a `kind` field named after the Python ast *)
(* node class and the fields of that class; an absent optional node is     *)
(* NoneNode and an absent optional name is the empty string.               *)
(***************************************************************************)
EXTENDS Integers, Sequences, FiniteSets, TLC

VARIABLES
    \* ---- check-notebook-code.py
    cpc,              \* position in main / check_notebook
    nb_cells,         \* cells of the current notebook fetched so far
    cell,             \* the cell the loop of check_notebook is looking at
    globals_defined,  \* check_notebook: globals_defined
    findings,         \* check_notebook: findings
    code_cell_index,  \* check_notebook: code_cell_index
    visitor,          \* the UndefinedSymbolVisitor of the cell checked last
    any_findings,     \* main: whether its findings list has an entry
    exit_code,        \* main: the value returned, -1 while running
    hist,             \* history of the run (for the properties)
    \* ---- python-runner/handler.py
    installed_packages,  \* the module global of that name
    failed_packages,     \* the module global of that name
    install_lock,        \* the thread holding install_lock, or NoThread
    base_preload_lock,   \* the thread holding base_preload_lock, or NoThread
    base_preload_done,   \* the module global of that name
    th,                  \* per thread: its position in lambda_handler and its locals
    calls,               \* lambda_handler calls started so far
    pip_count,           \* per package: installer invocations so far
    pip_timeouts,        \* the packages whose installer has timed out
    install_calls,       \* per package: _install_package calls that have returned
    \* ---- check-notebook-isolated-run.py
    iso,                 \* main: its position, its locals and what it has run
    \* ---- python-runner/handler.py, _coerce_modules on its own
    coerced              \* the last call of _coerce_modules: its argument and its result

cvars == <<cpc, nb_cells, cell, globals_defined, findings,
           code_cell_index, visitor, any_findings, exit_code, hist>>

rvars == <<installed_packages, failed_packages, install_lock, base_preload_lock,
           base_preload_done, th, calls, pip_count, pip_timeouts, install_calls>>

ivars == <<iso>>

mvars == <<coerced>>

vars == <<cvars, rvars, ivars, mvars>>

-----------------------------------------------------------------------------
(* Bounds *)

MaxCells == 2        \* cells fetched from one notebook

Idents == {"x", "y"} \* the identifiers the cells are written with

-----------------------------------------------------------------------------
(* Syntax trees *)

NoneNode == [kind |-> "None"]

Name(id, ctx) == [kind |-> "Name", id |-> id, ctx |-> ctx]
Load(id) == Name(id, "Load")
Store(id) == Name(id, "Store")
Constant == [kind |-> "Constant"]
Tuple(elts, ctx) == [kind |-> "Tuple", elts |-> elts, ctx |-> ctx]
Call(func, args) == [kind |-> "Call", func |-> func, args |-> args, keywords |-> <<>>]
NamedExpr(target, value) == [kind |-> "NamedExpr", target |-> target, value |-> value]
arg(a, annotation) == [kind |-> "arg", arg |-> a, annotation |-> annotation]
arguments(posonlyargs, args, vararg, kwonlyargs, kwarg, defaults) ==
    [kind |-> "arguments", posonlyargs |-> posonlyargs, args |-> args,
     vararg |-> vararg, kwonlyargs |-> kwonlyargs, kwarg |-> kwarg,
     defaults |-> defaults]
Lambda(args, body) == [kind |-> "Lambda", args |-> args, body |-> body]
comprehension(target, iter, ifs) ==
    [kind |-> "comprehension", target |-> target, iter |-> iter, ifs |-> ifs]
ListComp(elt, generators) == [kind |-> "ListComp", elt |-> elt, generators |-> generators]
DictComp(key, value, generators) ==
    [kind |-> "DictComp", key |-> key, value |-> value, generators |-> generators]

alias(name, asname) == [kind |-> "alias", name |-> name, asname |-> asname]
Assign(targets, value) == [kind |-> "Assign", targets |-> targets, value |-> value]
Expr(value) == [kind |-> "Expr", value |-> value]
Return(value) == [kind |-> "Return", value |-> value]
Pass == [kind |-> "Pass"]
Import(names) == [kind |-> "Import", names |-> names]
ImportFrom(module, names) == [kind |-> "ImportFrom", module |-> module, names |-> names]
FunctionDef(name, args, body, decorator_list) ==
    [kind |-> "FunctionDef", name |-> name, args |-> args, body |-> body,
     decorator_list |-> decorator_list]
ClassDef(name, bases, body) ==
    [kind |-> "ClassDef", name |-> name, bases |-> bases, body |-> body]
If(test, body, orelse) == [kind |-> "If", test |-> test, body |-> body, orelse |-> orelse]
ExceptHandler(type, name, body) ==
    [kind |-> "ExceptHandler", type |-> type, name |-> name, body |-> body]
Try(body, handlers) == [kind |-> "Try", body |-> body, handlers |-> handlers]
withitem(context_expr, optional_vars) ==
    [kind |-> "withitem", context_expr |-> context_expr, optional_vars |-> optional_vars]
With(items, body) == [kind |-> "With", items |-> items, body |-> body]
Module(body) == [kind |-> "Module", body |-> body]

\* the nodes of a sequence of optional nodes that are present
Present(nodes) == SelectSeq(nodes, LAMBDA n : n /= NoneNode)

RECURSIVE Flatten(_)
Flatten(seqs) == IF seqs = <<>> THEN <<>> ELSE Head(seqs) \o Flatten(Tail(seqs))

\* ast.iter_child_nodes: the child nodes of a node, in the order of its fields
iter_child_nodes(node) ==
    CASE node.kind = "Module" -> node.body
      [] node.kind = "Expr" -> <<node.value>>
      [] node.kind = "Return" -> Present(<<node.value>>)
      [] node.kind = "Assign" -> node.targets \o <<node.value>>
      [] node.kind = "Tuple" -> node.elts
      [] node.kind = "Call" -> <<node.func>> \o node.args
      [] node.kind = "NamedExpr" -> <<node.target, node.value>>
      [] node.kind = "Lambda" -> <<node.args, node.body>>
      [] node.kind = "arguments" ->
            node.posonlyargs \o node.args \o Present(<<node.vararg>>)
            \o node.kwonlyargs \o Present(<<node.kwarg>>) \o node.defaults
      [] node.kind = "arg" -> Present(<<node.annotation>>)
      [] node.kind = "ListComp" -> <<node.elt>> \o node.generators
      [] node.kind = "DictComp" -> <<node.key, node.value>> \o node.generators
      [] node.kind = "comprehension" -> <<node.target, node.iter>> \o node.ifs
      [] node.kind = "Import" -> node.names
      [] node.kind = "ImportFrom" -> node.names
      [] node.kind = "FunctionDef" ->
            <<node.args>> \o node.body \o node.decorator_list
      [] node.kind = "ClassDef" -> node.bases \o node.body
      [] node.kind = "If" -> <<node.test>> \o node.body \o node.orelse
      [] node.kind = "Try" -> node.body \o node.handlers
      [] node.kind = "ExceptHandler" -> Present(<<node.type>>) \o node.body
      [] node.kind = "With" -> node.items \o node.body
      [] node.kind = "withitem" -> <<node.context_expr>> \o Present(<<node.optional_vars>>)
      [] OTHER -> <<>>

\* ast.walk: the node and all its descendants
RECURSIVE walk(_)
walk(node) ==
    LET kids == iter_child_nodes(node)
    IN  <<node>> \o Flatten([i \in DOMAIN kids |-> walk(kids[i])])

-----------------------------------------------------------------------------
(* check-notebook-code.py: UndefinedSymbolVisitor *)

BUILTIN_NAMES == {"print", "Exception"}
ALLOWED_RUNTIME_GLOBALS ==
    {"__name__", "__file__", "__package__", "__loader__", "__spec__"}

\* UndefinedSymbolVisitor.__init__; param_stack and param_undefined are history:
\* the parameter names bound for each scope on the stack, and the names found
\* undefined while they were a parameter of an enclosing function or lambda;
\* so are min_depth and max_depth (the least and the greatest length the stack
\* has had), pushes and pops (the append and pop calls made on it)
UndefinedSymbolVisitor(globals) ==
    [globals_defined |-> globals, undefined |-> {}, scope_stack |-> <<{}>>,
     param_stack |-> <<{}>>, param_undefined |-> {}, min_depth |-> 1,
     max_depth |-> 1, pushes |-> 0, pops |-> 0]

_is_known(v, name) ==
    \/ name \in BUILTIN_NAMES \/ name \in ALLOWED_RUNTIME_GLOBALS
    \/ name \in v.globals_defined
    \/ \E i \in DOMAIN v.scope_stack : name \in v.scope_stack[i]

\* self.scope_stack[-1].add(name)
scope_add(v, name) ==
    [v EXCEPT !.scope_stack[Len(v.scope_stack)] = @ \cup {name}]

\* self.scope_stack.append(scope)
scope_push(v, scope) ==
    [v EXCEPT !.scope_stack = Append(@, scope), !.param_stack = Append(@, {}),
              !.pushes = @ + 1,
              !.max_depth = IF Len(v.scope_stack) + 1 > @
                            THEN Len(v.scope_stack) + 1 ELSE @]

\* a visit method that ends without its pop
scope_pop_Forgotten(v) == v

\* self.scope_stack.pop()
scope_pop(v) ==
    [v EXCEPT !.scope_stack = SubSeq(@, 1, Len(@) - 1),
              !.param_stack = SubSeq(@, 1, Len(@) - 1),
              !.pops = @ + 1,
              !.min_depth = IF Len(v.scope_stack) - 1 < @
                            THEN Len(v.scope_stack) - 1 ELSE @]

RECURSIVE _bind_name(_, _)
RECURSIVE _bind_names(_, _)
_bind_names(targets, v) ==
    IF targets = <<>> THEN v
    ELSE _bind_names(Tail(targets), _bind_name(Head(targets), v))

_bind_name(target, v) ==
    CASE target.kind = "Name" -> scope_add(v, target.id)
      [] target.kind \in {"Tuple", "List"} -> _bind_names(target.elts, v)
      [] target.kind = "Starred" -> _bind_name(target.value, v)
      [] OTHER -> v

\* a visit_Name that does not bind the names stored
visit_Name_NoStore(node, v) ==
    IF node.ctx = "Load" /\ ~_is_known(v, node.id)
    THEN [v EXCEPT !.undefined = @ \cup {node.id}]
    ELSE v

visit_Name(node, v) ==
    LET v1 == IF node.ctx = "Load" /\ ~_is_known(v, node.id)
              THEN [v EXCEPT !.undefined = @ \cup {node.id},
                             !.param_undefined =
                                 IF \E i \in DOMAIN v.param_stack :
                                        node.id \in v.param_stack[i]
                                 THEN @ \cup {node.id} ELSE @]
              ELSE v
    IN  IF node.ctx \in {"Store", "Del"} THEN scope_add(v1, node.id) ELSE v1

\* alias.name.split(".")[0]: a dotted name is the sequence of its segments
FirstSegment(dotted) == Head(dotted)

\* alias.name of a from-import: one segment
WholeName(dotted) == Head(dotted)

RECURSIVE add_names(_, _)
add_names(names, v) ==
    IF names = <<>> THEN v ELSE add_names(Tail(names), scope_add(v, Head(names)))

ImportBinding(a) == IF a.asname /= "" THEN a.asname ELSE FirstSegment(a.name)

ImportFromBindings(names) ==
    LET kept == SelectSeq(names, LAMBDA a : a.name /= <<"*">>)
    IN  [i \in DOMAIN kept |->
            IF kept[i].asname /= "" THEN kept[i].asname ELSE WholeName(kept[i].name)]

visit_Import(node, v) ==
    add_names([i \in DOMAIN node.names |-> ImportBinding(node.names[i])], v)

visit_ImportFrom(node, v) == add_names(ImportFromBindings(node.names), v)

ArgNames(args) == [i \in DOMAIN args |-> args[i].arg]

\* the parameters of a function or lambda, of every kind
Params(args) ==
    LET nodes == args.posonlyargs \o args.args \o Present(<<args.vararg>>)
                 \o args.kwonlyargs \o Present(<<args.kwarg>>)
    IN  {nodes[i].arg : i \in DOMAIN nodes}

\* a _bind_args that forgets *vararg and **kwarg
BoundArgs_NoVariadic(args) ==
    ArgNames(args.posonlyargs \o args.args \o args.kwonlyargs)

\* the names _bind_args adds, in order
BoundArgs(args) ==
    ArgNames(args.posonlyargs \o args.args \o args.kwonlyargs)
    \o ArgNames(Present(<<args.vararg>>))
    \o ArgNames(Present(<<args.kwarg>>))

_bind_args(args, v) ==
    LET v1 == add_names(BoundArgs(args), v)
    IN  [v1 EXCEPT !.param_stack[Len(v1.param_stack)] = @ \cup Params(args)]

RECURSIVE visit(_, _)
RECURSIVE visit_all(_, _)
visit_all(nodes, v) ==
    IF nodes = <<>> THEN v ELSE visit_all(Tail(nodes), visit(Head(nodes), v))

generic_visit(node, v) == visit_all(iter_child_nodes(node), v)

visit_Lambda(node, v) ==
    scope_pop(visit(node.body, _bind_args(node.args, scope_push(v, {}))))

_visit_function_like(node, v) ==
    scope_pop(visit_all(node.body, _bind_args(node.args, scope_push(v, {}))))

visit_FunctionDef(node, v) == _visit_function_like(node, scope_add(v, node.name))

visit_ClassDef(node, v) ==
    scope_pop(visit_all(node.body, scope_push(scope_add(v, node.name), {"__class__"})))

RECURSIVE visit_generators(_, _)
visit_generators(generators, v) ==
    IF generators = <<>> THEN v
    ELSE LET gen == Head(generators)
         IN  visit_generators(Tail(generators),
                 visit_all(gen.ifs, _bind_name(gen.target, visit(gen.iter, v))))

_visit_comprehension(node, value_nodes, generators, v) ==
    scope_pop(visit_all(value_nodes, visit_generators(generators, scope_push(v, {}))))

visit_ListComp(node, v) == _visit_comprehension(node, <<node.elt>>, node.generators, v)

visit_DictComp(node, v) ==
    _visit_comprehension(node, <<node.key, node.value>>, node.generators, v)

visit_ExceptHandler(node, v) ==
    LET v1 == IF node.type /= NoneNode THEN visit(node.type, v) ELSE v
        v2 == scope_push(v1, {})
        v3 == IF node.name /= "" THEN scope_add(v2, node.name) ELSE v2
    IN  scope_pop(visit_all(node.body, v3))

RECURSIVE visit_items(_, _)
visit_items(items, v) ==
    IF items = <<>> THEN v
    ELSE LET item == Head(items)
             v1 == visit(item.context_expr, v)
         IN  visit_items(Tail(items),
                 IF item.optional_vars /= NoneNode
                 THEN _bind_name(item.optional_vars, v1) ELSE v1)

visit_With(node, v) == visit_all(node.body, visit_items(node.items, v))

\* ast.NodeVisitor.visit: the visit_<kind> method if the class has one
visit(node, v) ==
    CASE node.kind = "Name" -> visit_Name(node, v)
      [] node.kind = "Import" -> visit_Import(node, v)
      [] node.kind = "ImportFrom" -> visit_ImportFrom(node, v)
      [] node.kind = "FunctionDef" -> visit_FunctionDef(node, v)
      [] node.kind = "Lambda" -> visit_Lambda(node, v)
      [] node.kind = "ClassDef" -> visit_ClassDef(node, v)
      [] node.kind = "ListComp" -> visit_ListComp(node, v)
      [] node.kind = "DictComp" -> visit_DictComp(node, v)
      [] node.kind = "ExceptHandler" -> visit_ExceptHandler(node, v)
      [] node.kind = "With" -> visit_With(node, v)
      [] OTHER -> generic_visit(node, v)

-----------------------------------------------------------------------------
(* check-notebook-code.py: collect_top_level_defs *)

StoredNames(nodes) ==
    {nodes[i].id : i \in {j \in DOMAIN nodes :
                            nodes[j].kind = "Name" /\ nodes[j].ctx = "Store"}}

\* what one statement of tree.body adds to globals_defined
top_level_defs(node) ==
    CASE node.kind \in {"FunctionDef", "AsyncFunctionDef", "ClassDef"} -> {node.name}
      [] node.kind = "Import" ->
            {ImportBinding(node.names[i]) : i \in DOMAIN node.names}
      [] node.kind = "ImportFrom" ->
            LET b == ImportFromBindings(node.names) IN {b[i] : i \in DOMAIN b}
      [] OTHER -> StoredNames(walk(node))

\* a collector that returns the names of the cell alone
collect_top_level_defs_Replace(tree, globals) ==
    UNION {top_level_defs(tree.body[i]) : i \in DOMAIN tree.body}

collect_top_level_defs(tree, globals) ==
    globals \cup UNION {top_level_defs(tree.body[i]) : i \in DOMAIN tree.body}

-----------------------------------------------------------------------------
(* The cells the notebooks are made of *)

NoArgs == arguments(<<>>, <<>>, NoneNode, <<>>, NoneNode, <<>>)

ArgKinds == {"posonly", "arg", "kwonly", "vararg", "kwarg"}

\* the arguments of a function with the one parameter p, of the given kind
OneArg(k, p) ==
    arguments(IF k = "posonly" THEN <<arg(p, NoneNode)>> ELSE <<>>,
              IF k = "arg" THEN <<arg(p, NoneNode)>> ELSE <<>>,
              IF k = "vararg" THEN arg(p, NoneNode) ELSE NoneNode,
              IF k = "kwonly" THEN <<arg(p, NoneNode)>> ELSE <<>>,
              IF k = "kwarg" THEN arg(p, NoneNode) ELSE NoneNode,
              <<>>)

CallPrint(a) == Expr(Call(Load("print"), <<Load(a)>>))
SetConst(a) == Assign(<<Store(a)>>, Constant)

\* a = 1; a = b; print(a); import a; import a.sub; import a as b; from m import a
SimpleStmts ==
    {SetConst(a) : a \in Idents}
    \cup {Assign(<<Store(a)>>, Load(b)) : a \in Idents, b \in Idents}
    \cup {CallPrint(a) : a \in Idents}
    \cup {Import(<<alias(<<a>>, "")>>) : a \in Idents}
    \cup {Import(<<alias(<<a, "sub">>, "")>>) : a \in Idents}
    \cup {Import(<<alias(<<"m">>, a)>>) : a \in Idents}
    \cup {ImportFrom("m", <<alias(<<a>>, "")>>) : a \in Idents}
    \cup {ImportFrom("m", <<alias(<<"*">>, "")>>)}

\* def a(): b = 1; def a(): return b; def x(<k> b): return b;
\* def x(b): return lambda: b; def x(p=b): pass; def x(p: b): pass;
\* @b def x(): pass; class a: b = 1; class x(b): pass
DefStmts ==
    {FunctionDef(a, NoArgs, <<SetConst(b)>>, <<>>) : a \in Idents, b \in Idents}
    \cup {FunctionDef(a, NoArgs, <<Return(Load(b))>>, <<>>) : a \in Idents, b \in Idents}
    \cup {FunctionDef("x", OneArg(k, b), <<Return(Load(b))>>, <<>>) :
            k \in ArgKinds, b \in Idents}
    \cup {FunctionDef("x", OneArg("arg", b), <<Return(Lambda(NoArgs, Load(b)))>>, <<>>) :
            b \in Idents}
    \cup {FunctionDef("x",
                      arguments(<<>>, <<arg("p", NoneNode)>>, NoneNode, <<>>, NoneNode,
                                <<Load(b)>>),
                      <<Pass>>, <<>>) : b \in Idents}
    \cup {FunctionDef("x",
                      arguments(<<>>, <<arg("p", Load(b))>>, NoneNode, <<>>, NoneNode, <<>>),
                      <<Pass>>, <<>>) : b \in Idents}
    \cup {FunctionDef("x", NoArgs, <<Pass>>, <<Load(b)>>) : b \in Idents}
    \cup {ClassDef(a, <<>>, <<SetConst(b)>>) : a \in Idents, b \in Idents}
    \cup {ClassDef("x", <<Load(b)>>, <<Pass>>) : b \in Idents}

\* x = lambda <k> y: y; lambda: (a := 1); [a for a in b]; a = {b: b for b in []};
\* [a for a in [] if b]
ExprStmts ==
    {Assign(<<Store("x")>>, Lambda(OneArg(k, "y"), Load("y"))) : k \in ArgKinds}
    \cup {Expr(Lambda(NoArgs, NamedExpr(Store(a), Constant))) : a \in Idents}
    \cup {Expr(ListComp(Load(a), <<comprehension(Store(a), Load(b), <<>>)>>)) :
            a \in Idents, b \in Idents}
    \cup {Assign(<<Store(a)>>,
                 DictComp(Load(b), Load(b), <<comprehension(Store(b), Constant, <<>>)>>)) :
            a \in Idents, b \in Idents}
    \cup {Expr(ListComp(Load(a), <<comprehension(Store(a), Constant, <<Load(b)>>)>>)) :
            a \in Idents, b \in Idents}

\* if 1: import a; if 1: a = 1; if 1: def a(): b = 1;
\* try: pass / except Exception as a: b = 1; try: import a / except: a = 1;
\* with a as b: pass; with a as (x, y): pass
CompoundStmts ==
    {If(Constant, <<Import(<<alias(<<a>>, "")>>)>>, <<>>) : a \in Idents}
    \cup {If(Constant, <<SetConst(a)>>, <<>>) : a \in Idents}
    \cup {If(Constant, <<FunctionDef(a, NoArgs, <<SetConst(b)>>, <<>>)>>, <<>>) :
            a \in Idents, b \in Idents}
    \cup {Try(<<Pass>>, <<ExceptHandler(Load("Exception"), a, <<SetConst(b)>>)>>) :
            a \in Idents, b \in Idents}
    \cup {Try(<<Import(<<alias(<<a>>, "")>>)>>,
              <<ExceptHandler(NoneNode, "", <<SetConst(a)>>)>>) : a \in Idents}
    \cup {With(<<withitem(Load(a), Store(b))>>, <<Pass>>) : a \in Idents, b \in Idents}
    \cup {With(<<withitem(Load(a), Tuple(<<Store("x"), Store("y")>>, "Store"))>>, <<Pass>>) :
            a \in Idents}

\* the statements two-statement cells are made of
PairStmts ==
    {SetConst(a) : a \in Idents} \cup {CallPrint(a) : a \in Idents}
    \cup {FunctionDef("x", NoArgs, <<Return(Load(b))>>, <<>>) : b \in Idents}

SecondStmts == {SetConst(a) : a \in Idents} \cup {CallPrint(a) : a \in Idents}

CodeCell(body) == [cell_type |-> "code", source |-> "code", tree |-> Module(body)]

\* a code cell of nothing but white space, a code cell ast.parse rejects, and a
\* cell that is not code
BlankCell == [cell_type |-> "code", source |-> "blank", tree |-> Module(<<>>)]
InvalidCell == [cell_type |-> "code", source |-> "invalid", tree |-> Module(<<>>)]
MarkdownCell == [cell_type |-> "markdown", source |-> "text", tree |-> Module(<<>>)]
NoCell == [cell_type |-> "none", source |-> "", tree |-> Module(<<>>)]

Cells ==
    {CodeCell(<<s>>) : s \in SimpleStmts \cup DefStmts \cup ExprStmts \cup CompoundStmts}
    \cup {CodeCell(<<s, t>>) : s \in PairStmts, t \in SecondStmts}
    \cup {BlankCell, InvalidCell, MarkdownCell}

-----------------------------------------------------------------------------
(* Python's own scoping of a cell, which the properties compare the checker *)
(* with                                                                    *)

SeqUnion(sets) == UNION {sets[i] : i \in DOMAIN sets}

RECURSIVE TargetNames(_)
TargetNames(target) ==
    CASE target.kind = "Name" -> {target.id}
      [] target.kind = "Tuple" -> SeqUnion([i \in DOMAIN target.elts |-> TargetNames(target.elts[i])])
      [] OTHER -> {}

\* the names an expression binds in the scope it is evaluated in (a walrus outside
\* any lambda or comprehension)
RECURSIVE ExprBinds(_)
ExprBinds(e) ==
    CASE e.kind = "NamedExpr" -> {e.target.id} \cup ExprBinds(e.value)
      [] e.kind = "Call" ->
            ExprBinds(e.func) \cup SeqUnion([i \in DOMAIN e.args |-> ExprBinds(e.args[i])])
      [] OTHER -> {}

\* the names an expression loads in the scope it is evaluated in: not the loads in
\* the body of a lambda or inside a comprehension, except the first iterable
RECURSIVE ExprLoads(_)
ExprLoads(e) ==
    CASE e.kind = "Name" -> IF e.ctx = "Load" THEN {e.id} ELSE {}
      [] e.kind = "NamedExpr" -> ExprLoads(e.value)
      [] e.kind = "Call" ->
            ExprLoads(e.func) \cup SeqUnion([i \in DOMAIN e.args |-> ExprLoads(e.args[i])])
      [] e.kind = "Lambda" ->
            SeqUnion([i \in DOMAIN e.args.defaults |-> ExprLoads(e.args.defaults[i])])
      [] e.kind \in {"ListComp", "DictComp"} -> ExprLoads(e.generators[1].iter)
      [] OTHER -> {}

\* the names a statement binds at the top level of its cell: outside the body of
\* every function, lambda, comprehension, exception handler and class
RECURSIVE TopLevelBinds(_)
TopLevelBinds(s) ==
    CASE s.kind = "Assign" ->
            SeqUnion([i \in DOMAIN s.targets |-> TargetNames(s.targets[i])])
            \cup ExprBinds(s.value)
      [] s.kind = "Expr" -> ExprBinds(s.value)
      [] s.kind \in {"FunctionDef", "ClassDef"} -> {s.name}
      [] s.kind = "Import" ->
            {IF s.names[i].asname /= "" THEN s.names[i].asname ELSE s.names[i].name[1] :
                i \in DOMAIN s.names}
      [] s.kind = "ImportFrom" ->
            {IF s.names[i].asname /= "" THEN s.names[i].asname ELSE s.names[i].name[1] :
                i \in {j \in DOMAIN s.names : s.names[j].name /= <<"*">>}}
      [] s.kind = "If" ->
            SeqUnion([i \in DOMAIN s.body |-> TopLevelBinds(s.body[i])])
            \cup SeqUnion([i \in DOMAIN s.orelse |-> TopLevelBinds(s.orelse[i])])
      [] s.kind = "Try" -> SeqUnion([i \in DOMAIN s.body |-> TopLevelBinds(s.body[i])])
      [] s.kind = "With" ->
            SeqUnion([i \in DOMAIN s.items |->
                        IF s.items[i].optional_vars = NoneNode THEN {}
                        ELSE TargetNames(s.items[i].optional_vars)])
            \cup SeqUnion([i \in DOMAIN s.body |-> TopLevelBinds(s.body[i])])
      [] OTHER -> {}

\* the names a statement loads at the top level of its cell; decorators, parameter
\* defaults and annotations, and class bases are evaluated there
RECURSIVE TopLevelLoads(_)
TopLevelLoads(s) ==
    CASE s.kind \in {"Assign", "Expr"} -> ExprLoads(s.value)
      [] s.kind = "FunctionDef" ->
            SeqUnion([i \in DOMAIN s.decorator_list |-> ExprLoads(s.decorator_list[i])])
            \cup SeqUnion([i \in DOMAIN s.args.defaults |-> ExprLoads(s.args.defaults[i])])
            \cup SeqUnion([i \in DOMAIN s.args.args |->
                            IF s.args.args[i].annotation = NoneNode THEN {}
                            ELSE ExprLoads(s.args.args[i].annotation)])
      [] s.kind = "ClassDef" -> SeqUnion([i \in DOMAIN s.bases |-> ExprLoads(s.bases[i])])
      [] s.kind = "If" ->
            ExprLoads(s.test)
            \cup SeqUnion([i \in DOMAIN s.body |-> TopLevelLoads(s.body[i])])
            \cup SeqUnion([i \in DOMAIN s.orelse |-> TopLevelLoads(s.orelse[i])])
      [] s.kind = "Try" ->
            SeqUnion([i \in DOMAIN s.body |-> TopLevelLoads(s.body[i])])
            \cup SeqUnion([i \in DOMAIN s.handlers |->
                            IF s.handlers[i].type = NoneNode THEN {}
                            ELSE ExprLoads(s.handlers[i].type)])
      [] s.kind = "With" ->
            SeqUnion([i \in DOMAIN s.items |-> ExprLoads(s.items[i].context_expr)])
            \cup SeqUnion([i \in DOMAIN s.body |-> TopLevelLoads(s.body[i])])
      [] OTHER -> {}

CellBinds(c) == SeqUnion([i \in DOMAIN c.tree.body |-> TopLevelBinds(c.tree.body[i])])
CellLoads(c) == SeqUnion([i \in DOMAIN c.tree.body |-> TopLevelLoads(c.tree.body[i])])

\* every name a cell binds in any scope, and every name it loads anywhere
NodeBinds(n) ==
    CASE n.kind = "Name" -> IF n.ctx = "Store" THEN {n.id} ELSE {}
      [] n.kind = "arg" -> {n.arg}
      [] n.kind \in {"FunctionDef", "ClassDef"} -> {n.name}
      [] n.kind = "ExceptHandler" -> IF n.name = "" THEN {} ELSE {n.name}
      [] n.kind = "alias" ->
            IF n.asname /= "" THEN {n.asname}
            ELSE IF n.name = <<"*">> THEN {} ELSE {n.name[1]}
      [] OTHER -> {}

AnyBinds(c) == LET ns == walk(c.tree) IN SeqUnion([i \in DOMAIN ns |-> NodeBinds(ns[i])])

AnyLoads(nodes) ==
    {nodes[i].id : i \in {j \in DOMAIN nodes :
                            nodes[j].kind = "Name" /\ nodes[j].ctx = "Load"}}

AlwaysKnown == BUILTIN_NAMES \cup ALLOWED_RUNTIME_GLOBALS

-----------------------------------------------------------------------------
(* check-notebook-code.py: check_notebook and main *)

NoVisitor == UndefinedSymbolVisitor({})

Finding(ordinal, kind, names) == [ordinal |-> ordinal, kind |-> kind, names |-> names]

InitHist ==
    [outcome |-> "none",       \* what the loop did with the cell it looked at last
     globals_before |-> {},    \* globals_defined when that cell was taken
     bound_before |-> {},      \* CellBinds of the notebook's parsed cells before it
     bound |-> {},             \* ... and with it
     any_bound |-> {},         \* AnyBinds of the notebook's parsed cells
     missed |-> {},            \* names a cell loaded unbound and unreported
     elsewhere |-> {}]         \* globals_defined at the end of the earlier notebooks

InitChecker ==
    /\ cpc = "main"
    /\ nb_cells = 0
    /\ cell = NoCell
    /\ globals_defined = {}
    /\ findings = <<>>
    /\ code_cell_index = 0
    /\ visitor = NoVisitor
    /\ any_findings = FALSE
    /\ exit_code = -1
    /\ hist = InitHist

\* a check_notebook that goes on with the names of the notebook before
check_notebook_start_KeepsGlobals ==
    [globals_defined |-> globals_defined, findings |-> <<>>, code_cell_index |-> 0]

\* check_notebook, lines 174-176: the state a notebook's check starts with
check_notebook_start == [globals_defined |-> {}, findings |-> <<>>, code_cell_index |-> 0]

\* main: the next notebook is handed to check_notebook
StartNotebook ==
    /\ cpc = "main"
    /\ nb_cells' = 0
    /\ globals_defined' = check_notebook_start.globals_defined
    /\ findings' = check_notebook_start.findings
    /\ code_cell_index' = check_notebook_start.code_cell_index
    /\ cell' = NoCell
    /\ visitor' = NoVisitor
    /\ cpc' = "loop"
    /\ hist' = [InitHist EXCEPT !.elsewhere = hist.elsewhere,
                                !.globals_before = check_notebook_start.globals_defined]
    /\ UNCHANGED <<any_findings, exit_code>>
    /\ UNCHANGED <<rvars, ivars, mvars>>

\* check_notebook: the loop takes the next cell of the notebook
FetchCell ==
    /\ cpc = "loop"
    /\ nb_cells < MaxCells
    /\ \E c \in Cells : cell' = c
    /\ nb_cells' = nb_cells + 1
    /\ visitor' = NoVisitor
    /\ cpc' = "body"
    /\ hist' = [hist EXCEPT !.outcome = "fetched",
                            !.globals_before = globals_defined,
                            !.bound_before = hist.bound]
    /\ UNCHANGED <<globals_defined, findings, code_cell_index,
                   any_findings, exit_code>>
    /\ UNCHANGED <<rvars, ivars, mvars>>

\* an update that is left out for a cell the visitor has a finding for
update_global_scope_OnlyIfClean(v, tree, globals) ==
    IF v.undefined = {} THEN collect_top_level_defs(tree, globals) ELSE globals

\* check_notebook, line 198: the call of collect_top_level_defs, made whatever
\* the visitor v found
update_global_scope(v, tree, globals) == collect_top_level_defs(tree, globals)

\* an except clause that lets the error pass in silence
except_SyntaxError_Silent(found, ordinal) == found

\* check_notebook, lines 188-190: the except clause for a cell that does not parse
except_SyntaxError(found, ordinal) == Append(found, Finding(ordinal, "SyntaxError", {}))

\* the names a checked cell loaded at its top level that nothing had bound, that
\* the cell does not bind, and that the visitor did not report
Missed(c, v, h) ==
    {n \in CellLoads(c) :
        /\ n \notin AlwaysKnown
        /\ n \notin h.bound
        /\ n \notin CellBinds(c)
        /\ n \notin v.undefined}

\* check_notebook: the body of the loop, for the cell taken
CheckCell ==
    /\ cpc = "body"
    /\ cpc' = "loop"
    /\ UNCHANGED <<nb_cells, cell, any_findings, exit_code>>
    /\ IF cell.cell_type /= "code"
       THEN /\ hist' = [hist EXCEPT !.outcome = "skipped"]
            /\ UNCHANGED <<globals_defined, findings, code_cell_index, visitor>>
       ELSE /\ code_cell_index' = code_cell_index + 1
            /\ IF cell.source = "blank"
               THEN /\ hist' = [hist EXCEPT !.outcome = "blank"]
                    /\ UNCHANGED <<globals_defined, findings, visitor>>
               ELSE IF cell.source = "invalid"
               THEN /\ findings' = except_SyntaxError(findings, code_cell_index')
                    /\ hist' = [hist EXCEPT !.outcome = "syntax"]
                    /\ UNCHANGED <<globals_defined, visitor>>
               ELSE LET v == visit(cell.tree, UndefinedSymbolVisitor(globals_defined))
                    IN  /\ visitor' = v
                        /\ findings' =
                              IF v.undefined /= {}
                              THEN Append(findings,
                                          Finding(code_cell_index', "Undefined symbols",
                                                  v.undefined))
                              ELSE findings
                        /\ globals_defined' =
                              update_global_scope(v, cell.tree, globals_defined)
                        /\ hist' = [hist EXCEPT
                                      !.outcome = "checked",
                                      !.bound = @ \cup CellBinds(cell),
                                      !.any_bound = @ \cup AnyBinds(cell),
                                      !.missed = @ \cup Missed(cell, v, hist)]
    /\ UNCHANGED <<rvars, ivars, mvars>>

\* check_notebook returns its findings and main extends its own list with them
EndNotebook ==
    /\ cpc = "loop"
    /\ any_findings' = (any_findings \/ findings /= <<>>)
    /\ cpc' = "main"
    /\ hist' = [hist EXCEPT !.elsewhere = @ \cup globals_defined]
    /\ UNCHANGED <<nb_cells, cell, globals_defined, findings,
                   code_cell_index, visitor, exit_code>>
    /\ UNCHANGED <<rvars, ivars, mvars>>

\* main, after the last notebook: the exit status
Finish ==
    /\ cpc = "main"
    /\ exit_code' = IF any_findings THEN 1 ELSE 0
    /\ cpc' = "done"
    /\ UNCHANGED <<nb_cells, cell, globals_defined, findings,
                   code_cell_index, visitor, any_findings, hist>>
    /\ UNCHANGED <<rvars, ivars, mvars>>

NextChecker == StartNotebook \/ FetchCell \/ CheckCell \/ EndNotebook \/ Finish

-----------------------------------------------------------------------------
(* python-runner/handler.py: constants and pure functions *)

MAX_CODE_CHARS == 20000
MAX_EXPECTED_MODULES == 24

MaxCalls == 2        \* lambda_handler calls in one process

Threads == {"t1", "t2"}
NoThread == "none"

\* module name -> package name, where they differ
PACKAGE_MAP == [sklearn |-> "scikit-learn", yaml |-> "pyyaml"]

\* NOEMA_BASE_MODULES, here "sklearn"
BASE_MODULES_RAW == <<[pad |-> FALSE, path |-> <<"sklearn">>]>>

\* the texts that [A-Za-z_][A-Za-z0-9_]* matches whole: some names, and a
\* family of numbered names long enough to pass MAX_EXPECTED_MODULES
Numbered(i) == "m" \o ToString(i)
Identifiers ==
    {"sklearn", "yaml", "foo", "bar", "linear_model", "_x"}
        \cup {Numbered(i) : i \in 1..(MAX_EXPECTED_MODULES + 2)}

\* A text is the sequence of its lines; a line that holds the words
\* No module named '<dotted name>' carries that name as its segments.
Line(s) == [text |-> s, module |-> <<>>]
NoModuleLine(path) == [text |-> "No module named", module |-> path]
NoText == <<>>

\* an optional string: None, or a text
PyNone == [none |-> TRUE, text |-> NoText]
PyStr(t) == [none |-> FALSE, text |-> t]

\* list(dict.fromkeys(xs))
RECURSIVE Dedupe(_)
Dedupe(xs) ==
    IF xs = <<>> THEN <<>>
    ELSE LET init == Dedupe(SubSeq(xs, 1, Len(xs) - 1))
             last == xs[Len(xs)]
         IN  IF \E i \in DOMAIN init : init[i] = last THEN init ELSE Append(init, last)

SeqSet(xs) == {xs[i] : i \in DOMAIN xs}

\* _coerce_modules: raw is NotAList or a sequence of items; an item is the string
\* str(item), given as its dotted segments, with or without surrounding blanks
NotAList == [list |-> FALSE, items |-> <<>>]
RawList(items) == [list |-> TRUE, items |-> items]

Newline == "\n"

\* str.strip(): the blanks around the item go, and so does a line break that
\* ends the item; a line break in front of a dot is inside the item and stays
strip_item(item) ==
    LET n == Len(item.path)
        last == item.path[n]
        cut == {w \in Identifiers : last = w \o Newline}
    IN  [pad |-> FALSE,
         path |-> IF cut = {} THEN item.path
                  ELSE [item.path EXCEPT ![n] = CHOOSE w \in cut : TRUE]]

\* .split(".")[0]
leading_segment(item) == Head(item.path)

\* re.match(r"^[A-Za-z_][A-Za-z0-9_]*$", base): in Python `$` matches at the
\* end of the text and also just before a line break that ends the text
re_match(base) == \E w \in Identifiers : base = w \/ base = w \o Newline

RECURSIVE coerce_loop(_, _)
coerce_loop(items, modules) ==
    IF items = <<>> \/ Len(modules) >= MAX_EXPECTED_MODULES THEN modules
    ELSE LET base == leading_segment(strip_item(Head(items)))
         IN  IF base = "" \/ ~re_match(base) \/ base \in SeqSet(modules)
             THEN coerce_loop(Tail(items), modules)
             ELSE coerce_loop(Tail(items), Append(modules, base))

_coerce_modules(raw) == IF ~raw.list THEN <<>> ELSE coerce_loop(raw.items, <<>>)

_coerce_modules_from_csv(raw) == IF raw = <<>> THEN <<>> ELSE _coerce_modules(RawList(raw))

BASE_MODULES == _coerce_modules_from_csv(BASE_MODULES_RAW)

_module_to_package(module_name) ==
    IF module_name \in DOMAIN PACKAGE_MAP THEN PACKAGE_MAP[module_name] ELSE module_name

\* MODULE_RE.search(stderr_text): the first line with the words, if any
_extract_missing_module(stderr_text) ==
    LET hits == SelectSeq(stderr_text, LAMBDA l : l.module /= <<>>)
    IN  IF hits = <<>> THEN "" ELSE Head(Head(hits).module)

\* what the child process of _run_code_once ended as: stdout is the record the
\* wrapper printed ("json"), nothing ("empty") or something else ("garbage")
Completed(timeout, returncode, stdout, stderr) ==
    [timeout |-> timeout, returncode |-> returncode, stdout |-> stdout, stderr |-> stderr]
Payload(ok, error, out, err) ==
    [form |-> "json", ok |-> ok, error |-> error, stdout |-> out, stderr |-> err]
NoOutput == [form |-> "empty", ok |-> FALSE, error |-> PyNone, stdout |-> NoText, stderr |-> NoText]
Garbage == [form |-> "garbage", ok |-> FALSE, error |-> PyNone, stdout |-> NoText, stderr |-> NoText]
\* ... or JSON that is not an object, such as []
NotADict == [form |-> "nondict", ok |-> FALSE, error |-> PyNone, stdout |-> NoText, stderr |-> NoText]

Traceback == <<Line("Traceback (most recent call last):")>>
ExecFailed == PyStr(<<Line("Python execution failed")>>)

RunOutcomes ==
    {   \* the code ran to its end
        Completed(FALSE, 0, Payload(TRUE, PyNone, <<Line("42")>>, NoText), NoText),
        \* ... and printed an import error it had caught
        Completed(FALSE, 0, Payload(TRUE, PyNone, NoText, <<NoModuleLine(<<"foo">>)>>), NoText),
        \* the code raised something else
        Completed(FALSE, 0, Payload(FALSE, ExecFailed, NoText, Traceback), NoText),
        \* the code imported a module that is missing
        Completed(FALSE, 0,
                  Payload(FALSE, ExecFailed, NoText,
                          Traceback \o <<NoModuleLine(<<"foo", "bar">>)>>), NoText),
        Completed(FALSE, 0,
                  Payload(FALSE, ExecFailed, NoText,
                          Traceback \o <<NoModuleLine(<<"sklearn", "linear_model">>)>>),
                  NoText),
        \* ... by a relative name
        Completed(FALSE, 0,
                  Payload(FALSE, ExecFailed, NoText, <<NoModuleLine(<<"", "bar">>)>>), NoText),
        \* the child was killed or could not start
        Completed(FALSE, 1, NoOutput, NoText),
        Completed(FALSE, 1, NoOutput, <<NoModuleLine(<<"foo">>)>>),
        \* the child left without printing its record, or printed something else
        Completed(FALSE, 0, NoOutput, NoText),
        Completed(FALSE, 0, Garbage, NoText),
        Completed(FALSE, 0, NotADict, NoText),
        \* the child ran out of time
        Completed(TRUE, 0, NoOutput, NoText)
    }

Result(ok, timedOut, stdout, stderr, error) ==
    [ok |-> ok, timedOut |-> timedOut, stdout |-> stdout, stderr |-> stderr, error |-> error]

NoResult == Result(FALSE, FALSE, NoText, NoText, PyNone)

\* _run_code_once raises: payload.get of line 244 on a payload that is no dict
_run_code_once_raises(completed) ==
    ~completed.timeout /\ completed.returncode = 0 /\ completed.stdout.form = "nondict"

\* a _run_code_once that reports a child stopped at the time limit as a failed one
_run_code_once_TimeoutAsFailure(completed) ==
    Result(FALSE, FALSE, NoText, <<Line("Python runner process failed.")>>,
           PyStr(<<Line("Python runner process failed.")>>))

\* _run_code_once, from what the child process ended as
_run_code_once(completed) ==
    IF completed.timeout
    THEN Result(FALSE, TRUE, NoText, <<Line("Execution timed out.")>>,
                PyStr(<<Line("Execution timed out.")>>))
    ELSE IF completed.returncode /= 0
    THEN Result(FALSE, FALSE, NoText,
                IF completed.stderr /= NoText THEN completed.stderr
                ELSE <<Line("Python runner process failed.")>>,
                PyStr(<<Line("Python runner process failed.")>>))
    ELSE IF completed.stdout.form = "garbage"
    THEN Result(FALSE, FALSE, NoText, <<Line("Python runner response decode failed.")>>,
                PyStr(<<Line("Python runner response decode failed.")>>))
    ELSE LET payload == completed.stdout
         IN  Result(payload.ok, FALSE, payload.stdout, payload.stderr,
                    IF ~payload.error.none /\ payload.error.text /= NoText
                    THEN PyStr(payload.error.text) ELSE PyNone)

\* a remediation that does not look at how the first run ended
should_remediate_Always(result) == TRUE

\* _execute_with_auto_install, line 275
should_remediate(result) == ~result.ok /\ ~result.timedOut

\* the dict _execute_with_auto_install returns
ExecuteResponse(result, installed, failed) ==
    [kind |-> "execute", stdout |-> result.stdout, stderr |-> result.stderr,
     error |-> result.error, timedOut |-> result.timedOut, duration |-> "measured",
     installedPackages |-> Dedupe(installed), failedModules |-> failed]

\* the dict lambda_handler returns for code it does not run
RejectResponse(message) ==
    [kind |-> "execute", stdout |-> NoText, stderr |-> NoText,
     error |-> PyStr(<<Line(message)>>), timedOut |-> FALSE, duration |-> "zero",
     installedPackages |-> <<>>, failedModules |-> <<>>]

\* an except clause that lets the exception go on to the caller
lambda_handler_except_Reraise(detail) == [kind |-> "fault", stderr |-> detail]

\* lambda_handler, lines 338-347: the except clause around its whole body;
\* detail is traceback.format_exc()
lambda_handler_except(detail) ==
    [kind |-> "execute", stdout |-> NoText, stderr |-> detail,
     error |-> PyStr(<<Line("Unhandled python runner error.")>>), timedOut |-> FALSE,
     duration |-> "zero", installedPackages |-> <<>>, failedModules |-> <<>>]

PreloadResponse(installed, failed) ==
    [kind |-> "preload", ok |-> TRUE, installedPackages |-> installed,
     failedModules |-> failed]

NoResponse == [kind |-> "none"]

\* the events lambda_handler is called with: code is given by its length and
\* by whether code.strip() is empty
Event(action, code_len, blank, expected) ==
    [action |-> action, code_len |-> code_len, blank |-> blank, expectedModules |-> expected]

Item(path) == [pad |-> FALSE, path |-> path]
Padded(path) == [pad |-> TRUE, path |-> path]

Events ==
    {Event("execute", 5, FALSE, RawList(<<>>)),
     Event("execute", 5, FALSE, RawList(<<Item(<<"sklearn", "linear_model">>)>>)),
     Event("execute", MAX_CODE_CHARS, FALSE, RawList(<<Padded(<<"foo">>), Item(<<"foo", "bar">>)>>)),
     Event("execute", 5, FALSE, NotAList),
     Event("execute", 3, TRUE, RawList(<<Item(<<"foo">>)>>)),
     Event("execute", MAX_CODE_CHARS + 1, FALSE, RawList(<<Item(<<"foo">>)>>)),
     Event("preload", 0, TRUE, RawList(<<Item(<<"1bad">>), Item(<<"foo">>), Item(<<"">>)>>))}

PipOutcomes == {"success", "nonzero", "timeout"}

\* ... and subprocess.run failing to start pip at all (OSError)
PipOutcomesAll == PipOutcomes \cup {"oserror"}

-----------------------------------------------------------------------------
(* python-runner/handler.py: the process, as threads running lambda_handler *)

Modules == {"sklearn", "foo"}
Packages == {_module_to_package(m) : m \in Modules}

NoEvent == Event("", 0, TRUE, NotAList)

\* the locals of one lambda_handler call and of the functions it is inside, and
\* what the call has done so far: children (how the child process of each run
\* ended), results (what _run_code_once made of each), remedy (how
\* the remediation install ended), attempts (_install_package calls), pips
\* (installer runs), resolved / unresolved (packages and modules whose
\* _install_package call returned success / failure), raised (an exception
\* reached the except clause of lambda_handler)
Idle ==
    [pc |-> "idle", event |-> NoEvent, modules_hint |-> <<>>,
     base_installed |-> <<>>, base_failed |-> <<>>,
     ctx |-> "", todo |-> <<>>, installed |-> <<>>, failed |-> <<>>,
     module_name |-> "", package_name |-> "", ok |-> FALSE, pip |-> "",
     result |-> NoResult, children |-> <<>>, results |-> <<>>, remedy |-> "none",
     attempts |-> 0, pips |-> 0, resolved |-> {}, unresolved |-> {},
     raised |-> FALSE, response |-> NoResponse]

InitRunner ==
    /\ installed_packages = {}
    /\ failed_packages = {}
    /\ install_lock = NoThread
    /\ base_preload_lock = NoThread
    /\ base_preload_done = FALSE
    /\ th = [t \in Threads |-> Idle]
    /\ calls = 0
    /\ pip_count = [p \in Packages |-> 0]
    /\ pip_timeouts = {}
    /\ install_calls = [p \in Packages |-> 0]

Goto(t, rec) == th' = [th EXCEPT ![t] = rec]

\* install_lock taken and given back by hand, and not given back on the
\* return of line 173
leave_install_lock_NotOnTimeout(t, outcome) == IF outcome = "timeout" THEN t ELSE NoThread

\* the holder of install_lock once thread t has left `with install_lock:` by
\* a return statement or an exception, after pip ended with outcome
leave_install_lock(t, outcome) == NoThread

\* `with lock:` lets a thread in without waiting
acquire_NoWait(lock) == TRUE

\* `with lock:` (lines 158, 189) lets a thread in when no thread holds the lock
acquire(lock) == lock = NoThread

\* an exception on its way out: the with statements it passes give their locks
\* back, and the except clause of lambda_handler makes the response
raise_exception(rec, detail) ==
    [rec EXCEPT !.pc = "done", !.raised = TRUE,
                !.response = lambda_handler_except(<<Line(detail)>>)]

\* a call of _preload_modules(modules) from the place ctx
call_preload_modules(rec, modules, ctx) ==
    [rec EXCEPT !.pc = "preload", !.ctx = ctx, !.todo = modules,
                !.installed = <<>>, !.failed = <<>>]

\* a call of _install_package(module_name) from the place ctx
call_install_package(rec, module_name, ctx) ==
    [rec EXCEPT !.pc = "install", !.ctx = ctx, !.module_name = module_name,
                !.package_name = "", !.pip = ""]

\* lambda_handler, lines 299-300
lambda_handler_begin(t, events) ==
    /\ th[t].pc = "idle"
    /\ calls < MaxCalls
    /\ calls' = calls + 1
    /\ \E event \in events :
          Goto(t, [Idle EXCEPT !.pc = "ensure_base", !.event = event,
                               !.modules_hint = _coerce_modules(event.expectedModules)])
    /\ UNCHANGED <<installed_packages, failed_packages, install_lock, base_preload_lock,
                   base_preload_done, pip_count, pip_timeouts, install_calls>>
    /\ UNCHANGED <<cvars, ivars, mvars>>

\* _ensure_base_modules, lines 186-187
_ensure_base_modules_check(t) ==
    /\ th[t].pc = "ensure_base"
    /\ IF base_preload_done
       THEN Goto(t, [th[t] EXCEPT !.pc = "dispatch",
                                  !.base_installed = <<>>, !.base_failed = <<>>])
       ELSE Goto(t, [th[t] EXCEPT !.pc = "base_lock"])
    /\ UNCHANGED <<installed_packages, failed_packages, install_lock, base_preload_lock,
                   base_preload_done, calls, pip_count, pip_timeouts, install_calls>>
    /\ UNCHANGED <<cvars, ivars, mvars>>

\* _ensure_base_modules, line 189: base_preload_lock is taken
_ensure_base_modules_lock(t) ==
    /\ th[t].pc = "base_lock"
    /\ acquire(base_preload_lock)
    /\ base_preload_lock' = t
    /\ Goto(t, [th[t] EXCEPT !.pc = "base_locked"])
    /\ UNCHANGED <<installed_packages, failed_packages, install_lock,
                   base_preload_done, calls, pip_count, pip_timeouts, install_calls>>
    /\ UNCHANGED <<cvars, ivars, mvars>>

\* _ensure_base_modules, lines 190-193
_ensure_base_modules_locked(t) ==
    /\ th[t].pc = "base_locked"
    /\ IF base_preload_done
       THEN /\ base_preload_lock' = NoThread
            /\ Goto(t, [th[t] EXCEPT !.pc = "dispatch",
                                     !.base_installed = <<>>, !.base_failed = <<>>])
            /\ UNCHANGED base_preload_done
       ELSE /\ base_preload_done' = TRUE
            /\ Goto(t, call_preload_modules(th[t], BASE_MODULES, "base"))
            /\ UNCHANGED base_preload_lock
    /\ UNCHANGED <<installed_packages, failed_packages, install_lock,
                   calls, pip_count, pip_timeouts, install_calls>>
    /\ UNCHANGED <<cvars, ivars, mvars>>

\* _preload_modules, line 255: the next module of the loop
_preload_modules_loop(t) ==
    /\ th[t].pc = "preload"
    /\ th[t].todo /= <<>>
    /\ Goto(t, call_install_package([th[t] EXCEPT !.todo = Tail(@)],
                                    Head(th[t].todo), th[t].ctx))
    /\ UNCHANGED <<installed_packages, failed_packages, install_lock, base_preload_lock,
                   base_preload_done, calls, pip_count, pip_timeouts, install_calls>>
    /\ UNCHANGED <<cvars, ivars, mvars>>

\* _preload_modules, lines 263-265, and what its caller does with the pair:
\* _ensure_base_modules returns it (193), lambda_handler answers a preload
\* (305-309), _execute_with_auto_install goes on to the run (269-272)
_preload_modules_return(t) ==
    /\ th[t].pc = "preload"
    /\ th[t].todo = <<>>
    /\ LET installed == Dedupe(th[t].installed)
           failed == Dedupe(th[t].failed)
       IN  CASE th[t].ctx = "base" ->
                  /\ base_preload_lock' = NoThread
                  /\ Goto(t, [th[t] EXCEPT !.pc = "dispatch", !.ctx = "",
                                           !.base_installed = installed,
                                           !.base_failed = failed,
                                           !.installed = <<>>, !.failed = <<>>])
             [] th[t].ctx = "preload" ->
                  /\ Goto(t, [th[t] EXCEPT
                                !.pc = "done", !.installed = installed, !.failed = failed,
                                !.response =
                                    PreloadResponse(Dedupe(th[t].base_installed \o installed),
                                                    Dedupe(th[t].base_failed \o failed))])
                  /\ UNCHANGED base_preload_lock
             [] OTHER ->
                  /\ Goto(t, [th[t] EXCEPT !.pc = "run1", !.installed = installed,
                                           !.failed = failed])
                  /\ UNCHANGED base_preload_lock
    /\ UNCHANGED <<installed_packages, failed_packages, install_lock,
                   base_preload_done, calls, pip_count, pip_timeouts, install_calls>>
    /\ UNCHANGED <<cvars, ivars, mvars>>

\* _install_package, lines 134-138. The two reads are one step: between them
\* another thread can only add the package to one of the sets, and either
\* order of that step and this one gives what the two reads give.
_install_package_check(t) ==
    /\ th[t].pc = "install"
    /\ LET package_name == _module_to_package(th[t].module_name)
       IN  IF package_name \in installed_packages
           THEN Goto(t, [th[t] EXCEPT !.pc = "install_return",
                                      !.package_name = package_name, !.ok = TRUE])
           ELSE IF package_name \in failed_packages
           THEN Goto(t, [th[t] EXCEPT !.pc = "install_return",
                                      !.package_name = package_name, !.ok = FALSE])
           ELSE Goto(t, [th[t] EXCEPT !.pc = "install_lock",
                                      !.package_name = package_name])
    /\ UNCHANGED <<installed_packages, failed_packages, install_lock, base_preload_lock,
                   base_preload_done, calls, pip_count, pip_timeouts, install_calls>>
    /\ UNCHANGED <<cvars, ivars, mvars>>

\* _install_package, line 158: install_lock is taken
_install_package_lock(t) ==
    /\ th[t].pc = "install_lock"
    /\ acquire(install_lock)
    /\ install_lock' = t
    /\ Goto(t, [th[t] EXCEPT !.pc = "install_locked"])
    /\ UNCHANGED <<installed_packages, failed_packages, base_preload_lock,
                   base_preload_done, calls, pip_count, pip_timeouts, install_calls>>
    /\ UNCHANGED <<cvars, ivars, mvars>>

\* the test _install_package makes once it holds install_lock, line 159
recheck(package_name) == package_name \in installed_packages

\* _install_package, lines 159-163: the second look, then pip is started
_install_package_locked(t) ==
    /\ th[t].pc = "install_locked"
    /\ IF recheck(th[t].package_name)
       THEN /\ install_lock' = NoThread
            /\ Goto(t, [th[t] EXCEPT !.pc = "install_return", !.ok = TRUE])
            /\ UNCHANGED pip_count
       ELSE /\ pip_count' = [pip_count EXCEPT ![th[t].package_name] = @ + 1]
            /\ Goto(t, [th[t] EXCEPT !.pc = "pip", !.pips = @ + 1])
            /\ UNCHANGED install_lock
    /\ UNCHANGED <<installed_packages, failed_packages, base_preload_lock,
                   base_preload_done, calls, pip_timeouts, install_calls>>
    /\ UNCHANGED <<cvars, ivars, mvars>>

\* _install_package, lines 163-179: pip has ended. A timeout, a nonzero exit
\* and an OSError leave the function, and install_lock is given back; a
\* success adds the package to installed_packages (line 179) and goes on to
\* line 180 with the lock still held.
_install_package_pip(t, pip_outcomes) ==
    /\ th[t].pc = "pip"
    /\ \E outcome \in pip_outcomes :
          LET package_name == th[t].package_name
          IN  /\ CASE outcome = "timeout" ->
                        /\ pip_timeouts' = pip_timeouts \cup {package_name}
                        /\ UNCHANGED <<installed_packages, failed_packages>>
                   [] outcome = "nonzero" ->
                        /\ failed_packages' = failed_packages \cup {package_name}
                        /\ UNCHANGED <<installed_packages, pip_timeouts>>
                   [] outcome = "oserror" ->
                        UNCHANGED <<installed_packages, failed_packages, pip_timeouts>>
                   [] OTHER ->
                        /\ installed_packages' = installed_packages \cup {package_name}
                        /\ UNCHANGED <<failed_packages, pip_timeouts>>
              /\ CASE outcome = "oserror" ->
                        /\ Goto(t, raise_exception(th[t], "OSError"))
                        /\ base_preload_lock' =
                               IF base_preload_lock = t THEN NoThread ELSE base_preload_lock
                        /\ install_lock' = leave_install_lock(t, outcome)
                   [] outcome = "success" ->
                        /\ Goto(t, [th[t] EXCEPT !.pc = "discard", !.pip = outcome])
                        /\ UNCHANGED <<base_preload_lock, install_lock>>
                   [] OTHER ->
                        /\ Goto(t, [th[t] EXCEPT !.pc = "install_return", !.pip = outcome,
                                                 !.ok = FALSE])
                        /\ UNCHANGED base_preload_lock
                        /\ install_lock' = leave_install_lock(t, outcome)
    /\ UNCHANGED <<base_preload_done, calls, pip_count, install_calls>>
    /\ UNCHANGED <<cvars, ivars, mvars>>

\* _install_package, lines 180-181: the package leaves failed_packages, the
\* function returns and install_lock is given back
_install_package_discard(t) ==
    /\ th[t].pc = "discard"
    /\ failed_packages' = failed_packages \ {th[t].package_name}
    /\ install_lock' = NoThread
    /\ Goto(t, [th[t] EXCEPT !.pc = "install_return", !.ok = TRUE])
    /\ UNCHANGED <<installed_packages, base_preload_lock, base_preload_done, calls,
                   pip_count, pip_timeouts, install_calls>>
    /\ UNCHANGED <<cvars, ivars, mvars>>

\* what the caller does with (ok, package_name): _preload_modules, lines
\* 256-260; _execute_with_auto_install, lines 278-282
_install_package_return(t) ==
    /\ th[t].pc = "install_return"
    /\ install_calls' = [install_calls EXCEPT ![th[t].package_name] = @ + 1]
    /\ LET rec == IF th[t].ok
                  THEN [th[t] EXCEPT !.attempts = @ + 1,
                                     !.resolved = @ \cup {th[t].package_name}]
                  ELSE [th[t] EXCEPT !.attempts = @ + 1,
                                     !.unresolved = @ \cup {th[t].module_name}]
       IN  IF th[t].ctx = "remedy"
           THEN IF th[t].ok
                THEN Goto(t, [rec EXCEPT !.pc = "run2", !.remedy = "ok",
                                         !.installed = Append(@, th[t].package_name)])
                ELSE Goto(t, [rec EXCEPT !.pc = "respond", !.remedy = "failed"])
           ELSE IF th[t].ok
                THEN Goto(t, [rec EXCEPT !.pc = "preload",
                                         !.installed = Append(@, th[t].package_name)])
                ELSE Goto(t, [rec EXCEPT !.pc = "preload",
                                         !.failed = Append(@, th[t].module_name)])
    /\ UNCHANGED <<installed_packages, failed_packages, install_lock, base_preload_lock,
                   base_preload_done, calls, pip_count, pip_timeouts>>
    /\ UNCHANGED <<cvars, ivars, mvars>>

\* lambda_handler, lines 303-334
lambda_handler_dispatch(t) ==
    /\ th[t].pc = "dispatch"
    /\ LET event == th[t].event
       IN  IF event.action = "preload"
           THEN Goto(t, call_preload_modules(th[t], th[t].modules_hint, "preload"))
           ELSE IF event.blank
           THEN Goto(t, [th[t] EXCEPT !.pc = "done",
                                      !.response = RejectResponse("Code is required.")])
           ELSE IF event.code_len > MAX_CODE_CHARS
           THEN Goto(t, [th[t] EXCEPT !.pc = "done",
                                      !.response = RejectResponse("Code is too long (max 20000 characters).")])
           ELSE Goto(t, call_preload_modules(th[t], th[t].modules_hint, "hint"))
    /\ UNCHANGED <<installed_packages, failed_packages, install_lock, base_preload_lock,
                   base_preload_done, calls, pip_count, pip_timeouts, install_calls>>
    /\ UNCHANGED <<cvars, ivars, mvars>>

\* _execute_with_auto_install, lines 272-278: the first run
_execute_with_auto_install_run(t, outcomes) ==
    /\ th[t].pc = "run1"
    /\ \E completed \in outcomes :
          IF _run_code_once_raises(completed)
          THEN Goto(t, raise_exception([th[t] EXCEPT !.children = <<completed>>],
                                       "AttributeError"))
          ELSE
          LET result == _run_code_once(completed)
              missing_module == _extract_missing_module(result.stderr)
              rec == [th[t] EXCEPT !.result = result, !.children = <<completed>>,
                                   !.results = <<result>>]
          IN  IF should_remediate(result) /\ missing_module /= ""
              THEN Goto(t, call_install_package(rec, missing_module, "remedy"))
              ELSE Goto(t, [rec EXCEPT !.pc = "respond"])
    /\ UNCHANGED <<installed_packages, failed_packages, install_lock, base_preload_lock,
                   base_preload_done, calls, pip_count, pip_timeouts, install_calls>>
    /\ UNCHANGED <<cvars, ivars, mvars>>

\* _execute_with_auto_install, lines 281-282: the second run
_execute_with_auto_install_rerun(t, outcomes) ==
    /\ th[t].pc = "run2"
    /\ \E completed \in outcomes :
          IF _run_code_once_raises(completed)
          THEN Goto(t, raise_exception([th[t] EXCEPT !.children = Append(@, completed)],
                                       "AttributeError"))
          ELSE
          LET result == _run_code_once(completed)
          IN  Goto(t, [th[t] EXCEPT !.pc = "respond", !.result = result,
                                    !.children = Append(@, completed),
                                    !.results = Append(@, result)])
    /\ UNCHANGED <<installed_packages, failed_packages, install_lock, base_preload_lock,
                   base_preload_done, calls, pip_count, pip_timeouts, install_calls>>
    /\ UNCHANGED <<cvars, ivars, mvars>>

\* _execute_with_auto_install, lines 284-294, and lambda_handler, lines 335-337
lambda_handler_respond(t) ==
    /\ th[t].pc = "respond"
    /\ LET result == ExecuteResponse(th[t].result, th[t].installed, th[t].failed)
       IN  Goto(t, [th[t] EXCEPT
                      !.pc = "done",
                      !.response =
                          [result EXCEPT
                             !.installedPackages = Dedupe(th[t].base_installed \o @),
                             !.failedModules = Dedupe(th[t].base_failed \o @)]])
    /\ UNCHANGED <<installed_packages, failed_packages, install_lock, base_preload_lock,
                   base_preload_done, calls, pip_count, pip_timeouts, install_calls>>
    /\ UNCHANGED <<cvars, ivars, mvars>>

\* the caller has the response; the thread is free for the next call
lambda_handler_end(t) ==
    /\ th[t].pc = "done"
    /\ Goto(t, Idle)
    /\ UNCHANGED <<installed_packages, failed_packages, install_lock, base_preload_lock,
                   base_preload_done, calls, pip_count, pip_timeouts, install_calls>>
    /\ UNCHANGED <<cvars, ivars, mvars>>

Step(t, events, outcomes, pip_outcomes) ==
    \/ lambda_handler_begin(t, events)
    \/ _ensure_base_modules_check(t)
    \/ _ensure_base_modules_lock(t)
    \/ _ensure_base_modules_locked(t)
    \/ _preload_modules_loop(t)
    \/ _preload_modules_return(t)
    \/ _install_package_check(t)
    \/ _install_package_lock(t)
    \/ _install_package_locked(t)
    \/ _install_package_pip(t, pip_outcomes)
    \/ _install_package_discard(t)
    \/ _install_package_return(t)
    \/ lambda_handler_dispatch(t)
    \/ _execute_with_auto_install_run(t, outcomes)
    \/ _execute_with_auto_install_rerun(t, outcomes)
    \/ lambda_handler_respond(t)
    \/ lambda_handler_end(t)

\* one thread: the calls of the process follow one another
NextRunnerSeq == Step("t1", Events, RunOutcomes, PipOutcomesAll)

\* the calls of the process overlap
RacingEvents ==
    {Event("execute", 5, FALSE, RawList(<<Item(<<"sklearn", "linear_model">>)>>)),
     Event("execute", 5, FALSE, NotAList),
     Event("preload", 0, TRUE, RawList(<<Item(<<"foo">>)>>))}

RacingOutcomes ==
    {Completed(FALSE, 0, Payload(TRUE, PyNone, <<Line("42")>>, NoText), NoText),
     Completed(FALSE, 0,
               Payload(FALSE, ExecFailed, NoText,
                       Traceback \o <<NoModuleLine(<<"foo", "bar">>)>>), NoText),
     Completed(TRUE, 0, NoOutput, NoText)}

NextRunner == \E t \in Threads : Step(t, RacingEvents, RacingOutcomes, PipOutcomes)

-----------------------------------------------------------------------------
(* check-notebook-isolated-run.py *)

MaxNotebooks == 2    \* notebooks in content/notebooks
MaxCodeCells == 3    \* non-empty code cells in one notebook

\* the texts a child process leaves on stdout or stderr, as sequences of lines
IsoTexts == {<<>>, <<" ">>, <<"Traceback (most recent call last):", "NameError: name 'x'">>}

\* text.strip(), for the texts above
strip(text) == IF text = <<" ">> THEN <<>> ELSE text

\* how the child process of run_code ended
IsoCompleted(timeout, returncode, stdout, stderr) ==
    [timeout |-> timeout, returncode |-> returncode, stdout |-> stdout, stderr |-> stderr]

IsoOutcomes ==
    {IsoCompleted(TRUE, 0, <<>>, <<>>)}
    \cup {IsoCompleted(FALSE, 0, <<>>, e) : e \in IsoTexts}
    \cup {IsoCompleted(FALSE, 1, o, e) : o \in {<<>>, <<"42">>}, e \in IsoTexts}

\* run_code, lines 45-60: the pair (ok, err)
run_code(completed) ==
    IF completed.timeout THEN [ok |-> FALSE, err |-> <<"TimeoutExpired">>]
    ELSE IF completed.returncode /= 0
    THEN [ok |-> FALSE,
          err |-> strip(IF completed.stderr /= <<>> THEN completed.stderr
                        ELSE IF completed.stdout /= <<>> THEN completed.stdout
                        ELSE <<"Execution failed">>)]
    ELSE [ok |-> TRUE, err |-> <<>>]

\* main, line 77: the entry added to failures
Failure(notebook, idx, err) ==
    [notebook |-> notebook, idx |-> idx,
     message |-> IF err /= <<>> THEN err[Len(err)] ELSE "Execution failed"]

\* a loop that goes on with the next cell after a failure
after_run_NoBreak(ok, idx, cells) == IF idx < cells THEN "cells" ELSE "notebooks"

\* main, lines 73-78: where the loop over the cells goes after the run of
\* prefix idx: out of it on a failure (break) and after the last cell
after_run(ok, idx, cells) == IF ~ok THEN "notebooks" ELSE after_run_NoBreak(ok, idx, cells)

\* main's locals (notebooks as their number, notebook as the index of the one
\* at hand, cells and cumulative as their lengths) and what it has done: runs
\* (for the notebook at hand, the prefix each child process ran, the number of
\* that process and how run_code took its end), spawned (child processes so
\* far), started (the notebooks whose first prefix was run), nonempty (the
\* notebooks that have code cells)
InitIsolated ==
    iso = [pc |-> "main", notebooks |-> 0, notebook |-> 0, cells |-> 0, cumulative |-> 0,
           failures |-> <<>>, exit_code |-> -1,
           runs |-> <<>>, spawned |-> 0, started |-> {}, nonempty |-> {}]

\* main, lines 64-65
main_start ==
    /\ iso.pc = "main"
    /\ \E n \in 0..MaxNotebooks :
          iso' = [iso EXCEPT !.pc = "notebooks", !.notebooks = n]
    /\ UNCHANGED <<cvars, rvars, mvars>>

\* main, lines 67-72: the next notebook and its code cells
load_code_cells ==
    /\ iso.pc = "notebooks"
    /\ iso.notebook < iso.notebooks
    /\ \E n \in 0..MaxCodeCells :
          iso' = [iso EXCEPT !.notebook = @ + 1, !.cells = n, !.cumulative = 0,
                             !.runs = <<>>,
                             !.nonempty = IF n > 0 THEN @ \cup {iso.notebook + 1} ELSE @,
                             !.pc = IF n = 0 THEN "notebooks" ELSE "cells"]
    /\ UNCHANGED <<cvars, rvars, mvars>>

\* main, lines 73-78: one more cell, and the run of the prefix in a child process
run_prefix ==
    /\ iso.pc = "cells"
    /\ \E completed \in IsoOutcomes :
          LET idx == iso.cumulative + 1
              r == run_code(completed)
          IN  iso' = [iso EXCEPT
                        !.cumulative = idx,
                        !.spawned = @ + 1,
                        !.runs = Append(@, [prefix |-> idx, process |-> iso.spawned + 1,
                                            ok |-> completed.returncode = 0
                                                   /\ ~completed.timeout]),
                        !.started = IF idx = 1 THEN @ \cup {iso.notebook} ELSE @,
                        !.failures = IF r.ok THEN @
                                     ELSE Append(@, Failure(iso.notebook, idx, r.err)),
                        !.pc = after_run(r.ok, idx, iso.cells)]
    /\ UNCHANGED <<cvars, rvars, mvars>>

\* main, lines 80-88: the exit status
main_return ==
    /\ iso.pc = "notebooks"
    /\ iso.notebook = iso.notebooks
    /\ iso' = [iso EXCEPT !.pc = "done",
                          !.exit_code = IF iso.failures /= <<>> THEN 1 ELSE 0]
    /\ UNCHANGED <<cvars, rvars, mvars>>

NextIsolated == main_start \/ load_code_cells \/ run_prefix \/ main_return

-----------------------------------------------------------------------------
(* _coerce_modules called on its own: the arguments a caller can pass *)

MaxItems == 3

CoerceItems ==
    {Item(<<"foo">>), Item(<<"foo", "bar">>), Padded(<<"yaml">>), Item(<<"1bad">>),
     Item(<<"">>), Item(<<"foo" \o Newline, "bar">>), Item(<<"bar" \o Newline>>)}

\* a list of n distinct well-formed names
LongList(n) == [i \in 1..n |-> Item(<<Numbered(i)>>)]

CoerceInputs ==
    {NotAList}
        \cup {RawList(items) : items \in UNION {[1..n -> CoerceItems] : n \in 0..MaxItems}}
        \cup {RawList(LongList(n)) : n \in (MAX_EXPECTED_MODULES - 1)..(MAX_EXPECTED_MODULES + 2)}
        \cup {RawList(<<Item(<<"foo">>), Item(<<"foo", "bar">>)>> \o LongList(MAX_EXPECTED_MODULES))}

InitCoerce == coerced = [called |-> FALSE, raw |-> NotAList, modules |-> <<>>]

\* lambda_handler, line 300: modules_hint = _coerce_modules(event.get("expectedModules"))
\* (a pure function: one call per behaviour shows all there is)
coerce_expected_modules ==
    /\ ~coerced.called
    /\ \E raw \in CoerceInputs :
           coerced' = [called |-> TRUE, raw |-> raw, modules |-> _coerce_modules(raw)]
    /\ UNCHANGED <<cvars, rvars, ivars>>

NextCoerce == coerce_expected_modules

-----------------------------------------------------------------------------
(* The specifications *)

Init == InitChecker /\ InitRunner /\ InitIsolated /\ InitCoerce

SpecChecker == Init /\ [][NextChecker]_vars

SpecRunnerSeq == Init /\ [][NextRunnerSeq]_vars

SpecRunner == Init /\ [][NextRunner]_vars

\* the calls of the process overlap, and a thread that can go on with its call
\* does so in the end: the scheduler runs every runnable thread, and every
\* installer and runner subprocess ends or is stopped at its time limit (the
\* timeout arguments of lines 168 and 210). Nothing obliges a new call to start.
Continue(t) == Step(t, {}, RacingOutcomes, PipOutcomes)

SpecRunnerFair == SpecRunner /\ \A t \in Threads : WF_vars(Continue(t))

SpecIsolated == Init /\ [][NextIsolated]_vars

SpecCoerce == Init /\ [][NextCoerce]_vars

-----------------------------------------------------------------------------
(* Properties of the checker *)

Checked == hist.outcome = "checked"

\* the names the top-level expression and assignment statements of a cell load
ValueLoads(s) == IF s.kind \in {"Assign", "Expr"} THEN ExprLoads(s.value) ELSE {}

CellValueLoads(c) == SeqUnion([i \in DOMAIN c.tree.body |-> ValueLoads(c.tree.body[i])])

\* C1: a name bound at top level by an earlier code cell is never reported as
\* undefined in a later cell, and a name bound only by a later cell, and neither a
\* builtin nor a pseudo-global, is reported on the earlier cell that loads it.
C1_CumulativeOrder ==
    Checked =>
        /\ visitor.undefined \cap hist.bound_before = {}
        /\ hist.missed \cap CellBinds(cell) = {}

\* C2: the names a cell adds to the Global Scope are names it binds at its top
\* level, outside every function, lambda, comprehension, handler and class body
\* (of those only the own name of a function or class), so that a later cell
\* loading a name bound only in such a body gets an undefined-symbol finding.
C2_LocalNamesStayLocal ==
    Checked =>
        /\ (globals_defined \ hist.globals_before) \subseteq CellBinds(cell)
        /\ \A n \in CellValueLoads(cell) \ AlwaysKnown :
              (n \notin hist.bound_before /\ n \notin CellBinds(cell))
                  => n \in visitor.undefined

\* C3: the Global Scope of a notebook starts empty and holds only names the cells
\* of that notebook bind, so a name bound only in another notebook is reported
\* as undefined where a cell loads it.
C3_PerNotebook ==
    /\ (cpc = "loop" /\ nb_cells = 0) => globals_defined = {}
    /\ cpc \in {"loop", "body"} => globals_defined \subseteq hist.any_bound
    /\ Checked =>
          \A n \in CellValueLoads(cell) \ AlwaysKnown :
              n \notin hist.any_bound => n \in visitor.undefined

\* a cell of a later notebook loads a name that only an earlier notebook defined
C3_Witness ==
    /\ Checked
    /\ \E n \in hist.elsewhere :
          /\ n \in CellValueLoads(cell)
          /\ n \notin hist.any_bound
          /\ n \in visitor.undefined

BoundUpTo(c, i) == SeqUnion([j \in 1..i |-> TopLevelBinds(c.tree.body[j])])

\* the names loaded anywhere in the statements 1..i of a cell
LoadedUpTo(c, i) == SeqUnion([j \in 1..i |-> AnyLoads(walk(c.tree.body[j]))])

FunctionLikes(c) ==
    LET ns == walk(c.tree)
    IN  {ns[i] : i \in {j \in DOMAIN ns : ns[j].kind \in {"FunctionDef", "Lambda"}}}

BodyLoads(f) ==
    IF f.kind = "Lambda" THEN AnyLoads(walk(f.body))
    ELSE SeqUnion([i \in DOMAIN f.body |-> AnyLoads(walk(f.body[i]))])

\* C5: no load of a name is found undefined inside the body of a function or
\* lambda that has the name as a parameter, of whatever kind, and whatever the
\* Global Scope holds.
C5_ParametersKnown == visitor.param_undefined = {}

\* a function or lambda loads a parameter that the Global Scope does not hold
C5_Witness ==
    /\ Checked
    /\ \E f \in FunctionLikes(cell) : \E p \in Params(f.args) \cap BodyLoads(f) :
          /\ p \notin hist.globals_before
          /\ f.args.kwarg /= NoneNode
          /\ p \notin visitor.undefined

-----------------------------------------------------------------------------
(* Properties of the runner *)

\* C6: two _install_package calls for the same module made one after the other
\* in one process start the installer exactly once, however the first
\* installer run ended (success, nonzero exit, timeout).
C6_AtMostOnceInSequence ==
    \A p \in Packages : install_calls[p] >= 2 => pip_count[p] = 1

\* a thread is back from _install_package and pip ran in that call
AfterPip(t) == th[t].pc = "install_return" /\ th[t].pip /= ""

\* C7: after an installer run in _install_package, a nonzero exit or a timeout
\* leaves the package recorded as Failed and the call returns failure; a
\* success leaves it recorded as Installed and the call returns success with
\* the resolved package name.
C7_OutcomeRecorded ==
    \A t \in Threads :
        AfterPip(t) =>
            /\ th[t].pip \in {"nonzero", "timeout"} =>
                   th[t].package_name \in failed_packages /\ ~th[t].ok
            /\ th[t].pip = "success" =>
                   /\ th[t].package_name \in installed_packages
                   /\ th[t].ok
                   /\ th[t].package_name = _module_to_package(th[t].module_name)

\* C8: under every interleaving, an entry of the cache, once added, is never
\* removed or changed (an Installed package stays Installed, a Failed one stays
\* Failed and does not become Installed), and the installer is not started
\* again for a package that is known Failed.
C8_CacheLifecycle ==
    [][\A p \in Packages :
          /\ p \in installed_packages => p \in installed_packages'
          /\ p \in failed_packages =>
                 /\ p \in failed_packages'
                 /\ p \notin installed_packages'
                 /\ pip_count'[p] = pip_count[p]]_vars

\* C9: racing callers of _install_package never start the installer twice for
\* one package, whether its first run succeeds or exits nonzero (a package whose
\* installer timed out is left aside here: C7 is about it).
C9_NoDuplicateInstalls ==
    \A p \in Packages : p \notin pip_timeouts => pip_count[p] <= 1

\* stderr holds a line with the words No module named '...'
HasSignature(stderr_text) == \E i \in DOMAIN stderr_text : stderr_text[i].module /= <<>>

\* an execute call that ran the code has its response, made from a run result
Answered(t) == th[t].pc = "done" /\ th[t].results /= <<>> /\ ~th[t].raised

\* the response says what this run result says
Returns(response, result) ==
    /\ response.stdout = result.stdout
    /\ response.stderr = result.stderr
    /\ response.error = result.error
    /\ response.timedOut = result.timedOut

HintCount(event) == IF event.expectedModules.list THEN Len(event.expectedModules.items) ELSE 0

\* C11: every execute call makes at most two runs of the code and at most
\* len(hints) + 1 _install_package calls, whatever the hints, the installer
\* and the runs do.
C11_BoundedAttempts ==
    \A t \in Threads :
        th[t].event.action = "execute" =>
            /\ Len(th[t].results) <= 2
            /\ th[t].attempts <= HintCount(th[t].event) + 1

\* no element occurs twice
NoDuplicates(xs) == \A i, j \in DOMAIN xs : xs[i] = xs[j] => i = j

\* C12: the response of an execute call that ran the code names every package
\* whose _install_package call succeeded during the call in installedPackages
\* and every module whose _install_package call failed during the call, the
\* remediation install included, in failedModules; neither list repeats a name.
C12_AllOutcomesReported ==
    \A t \in Threads :
        Answered(t) =>
            /\ th[t].resolved \subseteq SeqSet(th[t].response.installedPackages)
            /\ th[t].unresolved \subseteq SeqSet(th[t].response.failedModules)
            /\ NoDuplicates(th[t].response.installedPackages)
            /\ NoDuplicates(th[t].response.failedModules)

\* the call of thread t is an execute request with code over the limit
Oversized(t) == th[t].event.action = "execute" /\ th[t].event.code_len > MAX_CODE_CHARS

\* C13: an execute request whose code is longer than MAX_CODE_CHARS starts no
\* process while it is handled, neither the installer nor a run of the code,
\* and is answered with the length error and a duration of zero; this in every
\* state of the process, its first request included.
C13_OversizedSpawnsNothing ==
    \A t \in Threads :
        Oversized(t) =>
            /\ th[t].pips = 0
            /\ th[t].results = <<>>
            /\ th[t].pc = "done" =>
                   th[t].response = RejectResponse("Code is too long (max 20000 characters).")

\* the run whose result the call answers with
LastRun(t) == th[t].results[Len(th[t].results)]

\* C14: in the response of an execute call that ran the code, error is not
\* None exactly when the ok flag of the run is false, however the child
\* process ended.
C14_ErrorIffNotOk ==
    \A t \in Threads :
        Answered(t) => ((th[t].response.error /= PyNone) <=> ~LastRun(t).ok)

\* C15: a run stopped at the time limit, be it the first or the second run of
\* the call, is the last run of the call, and the response then has timedOut
\* true and an empty stdout.
C15_TimeoutReported ==
    \A t \in Threads :
        \A i \in DOMAIN th[t].children :
            th[t].children[i].timeout =>
                /\ i = Len(th[t].children)
                /\ th[t].pc \notin {"run2", "install", "install_lock", "install_locked",
                                     "pip", "discard", "install_return"}
                /\ th[t].pc = "done" =>
                       th[t].response.timedOut /\ th[t].response.stdout = NoText

\* a call answered after its second run was stopped at the time limit
C15_Witness ==
    \E t \in Threads :
        /\ Answered(t)
        /\ Len(th[t].children) = 2
        /\ th[t].children[2].timeout
        /\ th[t].response.timedOut

\* C16: whatever the requests and the subprocesses do, a lambda_handler call
\* ends with a response value for its caller, never with a fault; when an
\* exception was raised inside it, the response is the generic error with the
\* detail in stderr.
C16_AlwaysAResponse ==
    \A t \in Threads :
        th[t].pc = "done" =>
            /\ th[t].response.kind \in {"execute", "preload"}
            /\ th[t].raised =>
                   /\ th[t].response.error = PyStr(<<Line("Unhandled python runner error.")>>)
                   /\ th[t].response.stderr /= NoText
                   /\ th[t].response.stdout = NoText
                   /\ th[t].response.duration = "zero"

\* a call answered after pip could not be started during the base preload, the
\* locks given back
C16_Witness ==
    \E t \in Threads :
        /\ th[t].pc = "done"
        /\ th[t].raised
        /\ th[t].children = <<>>
        /\ th[t].response.stderr = <<Line("OSError")>>
        /\ install_lock = NoThread
        /\ base_preload_lock = NoThread

-----------------------------------------------------------------------------
(* More properties of the checker *)

\* the loop of check_notebook is about to handle a code cell that does not parse
AtInvalidCell == cpc = "body" /\ cell.cell_type = "code" /\ cell.source = "invalid"

\* C17: a code cell that does not parse adds exactly one finding, a SyntaxError
\* one, leaves the Global Scope as it was, and the loop goes on to the next cell.
C17_SyntaxErrorFrame ==
    [][AtInvalidCell =>
          /\ Len(findings') = Len(findings) + 1
          /\ SubSeq(findings', 1, Len(findings)) = findings
          /\ findings'[Len(findings')].kind = "SyntaxError"
          /\ globals_defined' = globals_defined
          /\ cpc' = "loop"]_vars

\* a cell checked, with a finding of its own, after a cell of the same notebook
\* that did not parse, the Global Scope still what it was before that cell
C17_Witness ==
    /\ Checked
    /\ Len(findings) = 2
    /\ findings[1].kind = "SyntaxError"
    /\ findings[2].kind = "Undefined symbols"
    /\ hist.globals_before = {}

\* the statements that bind at the top level of a cell by themselves: def,
\* class, import and assignment
BindingStmt(s) == s.kind \in {"FunctionDef", "ClassDef", "Import", "ImportFrom", "Assign"}

\* the names the top-level def, class, import and assignment statements of a cell bind
StmtBinds(c) ==
    SeqUnion([i \in DOMAIN c.tree.body |->
                 IF BindingStmt(c.tree.body[i]) THEN TopLevelBinds(c.tree.body[i]) ELSE {}])

C19_GlobalScopeGrows ==
    [][(cpc = "loop" \/ cpc = "body") => globals_defined \subseteq globals_defined']_vars

\* a cell has added a name to a Global Scope that already held another
C19_Witness ==
    /\ Checked
    /\ hist.globals_before /= {}
    /\ hist.globals_before \subseteq globals_defined
    /\ globals_defined /= hist.globals_before

\* C20: the visitor reports exactly the name loads that nothing known covers:
\* a name loaded anywhere in the cell, decorators, parameter defaults,
\* annotations and class bases included, that is no builtin, no pseudo-global,
\* not in the Global Scope and bound nowhere in the cell (so in no scope of the
\* stack at any time) is reported, and a reported name is such a load, of a
\* name neither builtin, pseudo-global nor in the Global Scope.
C20_UndefinedIffUnknown ==
    Checked =>
        /\ \A n \in AnyLoads(walk(cell.tree)) :
              (/\ n \notin AlwaysKnown
               /\ n \notin hist.globals_before
               /\ n \notin AnyBinds(cell)) => n \in visitor.undefined
        /\ visitor.undefined \subseteq
              (AnyLoads(walk(cell.tree)) \ (AlwaysKnown \cup hist.globals_before))

-----------------------------------------------------------------------------
(* Properties of the isolated-run verifier *)

\* the failures recorded for the notebook at hand
FailuresHere == SelectSeq(iso.failures, LAMBDA f : f.notebook = iso.notebook)

\* C21: for each notebook the verifier runs the prefixes cells[1..k] for
\* k = 1, 2, ... in this order, each in a child process of its own, and stops at
\* the first prefix that fails: no prefix is run after a failed one, a notebook
\* has at most one failure recorded, the one of its failed prefix; the notebooks
\* after a failed one are still run, and the exit status is 0 exactly when no
\* failure was recorded.
C21_StopsAtFirstFailure ==
    /\ \A i \in DOMAIN iso.runs :
          /\ iso.runs[i].prefix = i
          /\ i <= iso.cells
          /\ i < Len(iso.runs) => iso.runs[i].ok
          /\ \A j \in DOMAIN iso.runs : iso.runs[i].process = iso.runs[j].process => i = j
    /\ Len(FailuresHere) <= 1
    /\ \A i, j \in DOMAIN iso.failures :
          iso.failures[i].notebook = iso.failures[j].notebook => i = j
    /\ iso.runs /= <<>> =>
          IF iso.runs[Len(iso.runs)].ok THEN FailuresHere = <<>>
          ELSE /\ Len(FailuresHere) = 1
               /\ FailuresHere[1].idx = Len(iso.runs)
               /\ iso.pc \in {"notebooks", "done"}
    /\ iso.pc \in {"notebooks", "done"} => iso.started = iso.nonempty
    /\ iso.pc = "done" =>
          /\ iso.notebook = iso.notebooks
          /\ (iso.exit_code = 0) <=> (iso.failures = <<>>)

\* the first notebook failed at its second prefix, the second notebook was then
\* run through, and the status is 1
C21_Witness ==
    /\ iso.pc = "done"
    /\ iso.notebooks = 2
    /\ Len(iso.failures) = 1
    /\ iso.failures[1].notebook = 1
    /\ iso.failures[1].idx = 2
    /\ Len(iso.runs) = 3
    /\ iso.exit_code = 1

\* C27: when a cell that parses has been visited, every scope the visitor
\* pushed has been popped, the stack was never empty, and what is left on it is
\* the one top-level scope; the visitor's copy of the Global Scope is as it was
\* given, and the caller's set holds what collect_top_level_defs made of it.
C27_ScopeStackBalanced ==
    Checked =>
        /\ visitor.pushes = visitor.pops
        /\ visitor.min_depth = 1
        /\ Len(visitor.scope_stack) = 1
        /\ visitor.globals_defined = hist.globals_before
        /\ globals_defined = collect_top_level_defs(cell.tree, hist.globals_before)

\* a cell with a lambda inside a function has been visited, the Global Scope not empty
C27_Witness ==
    /\ Checked
    /\ visitor.pushes = 2
    /\ visitor.max_depth = 3
    /\ hist.globals_before /= {}
    /\ \E i \in DOMAIN walk(cell.tree) : walk(cell.tree)[i].kind = "Lambda"

-----------------------------------------------------------------------------
(* Properties of the runner's locks *)

\* the thread has an installer subprocess running
Installing(t) == th[t].pc = "pip"

\* C23: in every reachable state at most one installer subprocess is running,
\* and the thread that runs it holds install_lock; callers that want distinct
\* packages wait for one another too.
C23_OneInstaller ==
    \A t, u \in Threads :
        Installing(t) => /\ install_lock = t
                         /\ Installing(u) => t = u

C23_Witness ==
    \E t, u \in Threads :
        /\ Installing(t)
        /\ th[u].pc = "install_lock"
        /\ th[u].package_name /= th[t].package_name

\* C24: in every reachable state installed_packages and failed_packages are
\* disjoint, and a package once in installed_packages stays in it (both sets
\* are empty when the process starts, so the states to look at are those that
\* a step leads to).
C24_DisjointAndInstalledStays ==
    [][/\ installed_packages' \cap failed_packages' = {}
       /\ installed_packages \subseteq installed_packages']_vars

\* the places of _install_package inside `with install_lock:`
InsideInstallLock == {"install_locked", "pip", "discard"}

\* thread t is inside `with base_preload_lock:`
InsideBasePreloadLock(t) ==
    th[t].pc = "base_locked" \/ (th[t].ctx = "base" /\ th[t].pc /= "done")

\* each lock is held by exactly the thread that is inside its with block; so a
\* thread that holds install_lock never waits for base_preload_lock, and a
\* thread that has left _install_package on any path holds install_lock no more
LockDiscipline ==
    \A t \in Threads :
        /\ install_lock = t <=> th[t].pc \in InsideInstallLock
        /\ base_preload_lock = t <=> InsideBasePreloadLock(t)
        /\ th[t].pc \in {"base_lock", "base_locked"} => install_lock /= t

\* C25: the locks are taken in the order base_preload_lock, install_lock only,
\* install_lock is given back on every way out of _install_package, and every
\* lambda_handler call that has started returns in the end.
C25_NoDeadlockNoLeak ==
    /\ []LockDiscipline
    /\ \A t \in Threads : (th[t].pc /= "idle") ~> (th[t].pc = "done")

\* a thread holds both locks, taken in that order, and the other waits for install_lock
C25_Witness ==
    \E t, u \in Threads :
        /\ base_preload_lock = t
        /\ install_lock = t
        /\ th[t].pc = "pip"
        /\ th[u].pc = "install_lock"

\* thread t starts _preload_modules(BASE_MODULES) in this step
StartsBasePreload(t) == th[t].ctx /= "base" /\ th'[t].ctx = "base"

\* thread t makes its first run of the user's code in this step
RunsUserCode(t) == th[t].pc = "run1" /\ th'[t].pc /= "run1"

\* the base preload has been started and the thread that started it is back
\* from _ensure_base_modules
BasePreloadCompleted ==
    base_preload_done /\ \A t \in Threads : ~InsideBasePreloadLock(t)

\* C26: the base preload is started at most once in the process (no thread
\* starts it once base_preload_done is set, and the thread that starts it sets
\* base_preload_done), and no call runs the user's code before the base
\* preload has completed.
C26_BasePreloadOnceAndFirst ==
    [][\A t \in Threads :
          /\ StartsBasePreload(t) => ~base_preload_done /\ base_preload_done'
          /\ RunsUserCode(t) => BasePreloadCompleted]_vars

-----------------------------------------------------------------------------
(* Properties of _coerce_modules *)

\* the item as the loop sees it: stripped, cut at its first dot
Segment(item) == leading_segment(strip_item(item))

\* a text that [A-Za-z_][A-Za-z0-9_]* matches from its first to its last character
ValidIdentifier(name) == name \in Identifiers

FirstAt(name, items) ==
    CHOOSE i \in DOMAIN items :
        Segment(items[i]) = name /\ \A j \in 1..(i - 1) : Segment(items[j]) /= name

\* C22: for every list, each entry of the result is the leading dotted segment
\* of some entry of the list and is a valid identifier; the result has no
\* duplicates, keeps the order of first occurrence, has at most 24 entries, and
\* malformed entries are dropped; an argument that is not a list gives [].
C22_CoerceModules ==
    coerced.called =>
        LET items == coerced.raw.items
            modules == coerced.modules
        IN  IF ~coerced.raw.list THEN modules = <<>>
            ELSE /\ \A i \in DOMAIN modules :
                       /\ \E j \in DOMAIN items : modules[i] = Segment(items[j])
                       /\ ValidIdentifier(modules[i])
                 /\ \A i, k \in DOMAIN modules : modules[i] = modules[k] => i = k
                 /\ \A i, k \in DOMAIN modules :
                       i < k => FirstAt(modules[i], items) < FirstAt(modules[k], items)
                 /\ Len(modules) <= MAX_EXPECTED_MODULES
                 /\ \A j \in DOMAIN items :
                       ~ValidIdentifier(Segment(items[j])) =>
                           Segment(items[j]) \notin SeqSet(modules)

====
